---- MODULE Spec2Model ----
(***************************************************************************)
(* NSW property sales ingestion: the DAT record parser                     *)
(* (scripts/parsers/datParser.js), the ingestion orchestrator and import   *)
(* ledger (scripts/ingestPropertySales.js) and the storage schema          *)
(* (scripts/db/schema.sql).                                                *)
(*                                                                         *)
(* Text is a sequence of one-character strings.  JS null / undefined and   *)
(* SQL NULL are the single value NULL.  Columns of property_sales that no  *)
(* constraint and no control flow depends on (address, price, zone ...)    *)
(* are not carried.                                                        *)
(***************************************************************************)
EXTENDS Integers, Sequences, FiniteSets, TLC

\* Number of invocations of the command-line tool (one connection each).
MaxRuns == 2

NULL == <<"NULL">>
E == <<>>

Digit == {"0", "1", "2", "3", "4", "5", "6", "7", "8", "9"}

DigitVal(c) ==
  CASE c = "0" -> 0 [] c = "1" -> 1 [] c = "2" -> 2 [] c = "3" -> 3
    [] c = "4" -> 4 [] c = "5" -> 5 [] c = "6" -> 6 [] c = "7" -> 7
    [] c = "8" -> 8 [] c = "9" -> 9

\* JS truthiness of a string-or-null value: null, undefined and "" are falsy.
Truthy(s) == s # NULL /\ s # E

\* a || b on string-or-null values
OrElse(a, b) == IF Truthy(a) THEN a ELSE b

\* fields[i] of a split line (0-based as in the source); undefined past the end
Field(fields, i) == IF i + 1 <= Len(fields) THEN fields[i + 1] ELSE NULL

RECURSIVE DigitsPrefix(_, _)
DigitsPrefix(s, i) ==
  IF i > Len(s) \/ s[i] \notin Digit THEN <<>>
  ELSE <<s[i]>> \o DigitsPrefix(s, i + 1)

RECURSIVE DigitsValue(_)
DigitsValue(ds) ==
  IF ds = <<>> THEN 0
  ELSE DigitsValue(SubSeq(ds, 1, Len(ds) - 1)) * 10 + DigitVal(ds[Len(ds)])

RECURSIVE SkipSpaces(_)
SkipSpaces(s) ==
  IF s # <<>> /\ s[1] = " " THEN SkipSpaces(Tail(s)) ELSE s

\* parseInt(s, 10): leading blanks, an optional sign, then the longest digit
\* prefix; NaN when there is no digit.
parseInt(s) ==
  IF s = NULL THEN [nan |-> TRUE, val |-> 0]
  ELSE LET t   == SkipSpaces(s)
           neg == t # <<>> /\ t[1] = "-"
           u   == IF t # <<>> /\ t[1] \in {"-", "+"} THEN Tail(t) ELSE t
           ds  == DigitsPrefix(u, 1)
       IN IF ds = <<>> THEN [nan |-> TRUE, val |-> 0]
          ELSE [nan |-> FALSE,
                val |-> IF neg THEN 0 - DigitsValue(ds) ELSE DigitsValue(ds)]

\* parseInt(x, 10) || 1
parseSequence(s) ==
  LET n == parseInt(s) IN IF n.nan \/ n.val = 0 THEN 1 ELSE n.val

\* parseSaleRecord.parseDate: YYYYMMDD -> YYYY-MM-DD, anything else null
parseDate(dateStr) ==
  IF ~Truthy(dateStr) \/ Len(dateStr) # 8 THEN NULL
  ELSE SubSeq(dateStr, 1, 4) \o <<"-">> \o SubSeq(dateStr, 5, 6)
         \o <<"-">> \o SubSeq(dateStr, 7, 8)

parseHeaderRecord(fields) ==
  [districtCode |-> Field(fields, 2)]

parseSaleRecord(fields, sourceFile) ==
  [districtCode      |-> Field(fields, 1),
   propertyId        |-> Field(fields, 2),
   saleSequence      |-> parseSequence(Field(fields, 3)),
   contractDate      |-> parseDate(Field(fields, 13)),
   sourceFile        |-> sourceFile,
   legalDescriptions |-> <<>>,
   interests         |-> <<>>]

\* /^\d+$/ on a string
AllDigits(s) == s # <<>> /\ \A i \in 1..Len(s) : s[i] \in Digit

\* legalDesc.match(/^(\d+)\/(\d+)$/): the two groups, <<>> when it is null
lotPlanMatch(legalDesc) ==
  LET lot  == DigitsPrefix(legalDesc, 1)
      rest == SubSeq(legalDesc, Len(lot) + 2, Len(legalDesc))
  IN IF /\ lot # <<>> /\ Len(legalDesc) > Len(lot)
        /\ legalDesc[Len(lot) + 1] = "/" /\ AllDigits(rest)
     THEN <<lot, rest>> ELSE <<>>

\* legalDesc.match(/^SP(\d+)$/i): the group, <<>> when it is null
strataMatch(legalDesc) ==
  IF /\ Len(legalDesc) >= 3
     /\ legalDesc[1] \in {"S", "s"} /\ legalDesc[2] \in {"P", "p"}
     /\ AllDigits(SubSeq(legalDesc, 3, Len(legalDesc)))
  THEN <<SubSeq(legalDesc, 3, Len(legalDesc))>> ELSE <<>>

\* a strata test without the i flag
parseLegalDescriptionRecord_caseSensitive(fields) ==
  LET legalDesc == OrElse(Field(fields, 5), E)
      lp == lotPlanMatch(legalDesc)
      sp == IF legalDesc # <<>> /\ legalDesc[1] = "S" /\ Len(legalDesc) >= 2
               /\ legalDesc[2] = "P"
            THEN strataMatch(legalDesc) ELSE <<>>
  IN [districtCode     |-> Field(fields, 1),
      propertyId       |-> Field(fields, 2),
      saleSequence     |-> parseSequence(Field(fields, 3)),
      legalDescription |-> legalDesc,
      lotNumber        |-> IF lp # <<>> THEN lp[1] ELSE NULL,
      planNumber       |-> IF sp # <<>> THEN sp[1]
                           ELSE IF lp # <<>> THEN lp[2] ELSE NULL,
      planType         |-> IF sp # <<>> THEN <<"S", "P">> ELSE <<"D", "P">>]

parseLegalDescriptionRecord(fields) ==
  LET legalDesc == OrElse(Field(fields, 5), E)
      lp == lotPlanMatch(legalDesc)
      sp == strataMatch(legalDesc)
  IN [districtCode     |-> Field(fields, 1),
      propertyId       |-> Field(fields, 2),
      saleSequence     |-> parseSequence(Field(fields, 3)),
      legalDescription |-> legalDesc,
      lotNumber        |-> IF lp # <<>> THEN lp[1] ELSE NULL,
      planNumber       |-> IF sp # <<>> THEN sp[1]
                           ELSE IF lp # <<>> THEN lp[2] ELSE NULL,
      planType         |-> IF sp # <<>> THEN <<"S", "P">> ELSE <<"D", "P">>]

parseInterestRecord(fields) ==
  [districtCode |-> Field(fields, 1),
   propertyId   |-> Field(fields, 2),
   saleSequence |-> parseSequence(Field(fields, 3)),
   interestType |-> OrElse(Field(fields, 5), NULL)]

\* filename.match(/^(\d{3})_/)
districtMatch(filename) ==
  IF Len(filename) >= 4 /\ filename[1] \in Digit /\ filename[2] \in Digit
     /\ filename[3] \in Digit /\ filename[4] = "_"
  THEN SubSeq(filename, 1, 3) ELSE NULL

\* a line loop whose B case starts the new sale without pushing the one in
\* progress
parseLine_noBoundary(st, fields, lineNo) ==
  LET recordType == Field(fields, 0) IN
  CASE recordType = <<"A">> ->
         [st EXCEPT !.header = <<parseHeaderRecord(fields)>>]
    [] recordType = <<"B">> ->
         [st EXCEPT !.currentSale = <<parseSaleRecord(fields, st.filename)>>]
    [] recordType = <<"C">> ->
         IF st.currentSale # <<>>
         THEN [st EXCEPT !.currentSale[1].legalDescriptions =
                           Append(@, parseLegalDescriptionRecord(fields))]
         ELSE st
    [] recordType = <<"D">> ->
         IF st.currentSale # <<>>
         THEN [st EXCEPT !.currentSale[1].interests =
                           Append(@, parseInterestRecord(fields))]
         ELSE st
    [] OTHER ->
         [st EXCEPT !.parseErrors = Append(@, lineNo)]

\* a line loop whose default case also gives up the sale in progress
parseLine_unknownEndsSale(st, fields, lineNo) ==
  LET recordType == Field(fields, 0) IN
  CASE recordType = <<"A">> ->
         [st EXCEPT !.header = <<parseHeaderRecord(fields)>>]
    [] recordType = <<"B">> ->
         [st EXCEPT !.sales = @ \o st.currentSale,
                    !.currentSale = <<parseSaleRecord(fields, st.filename)>>]
    [] recordType = <<"C">> ->
         IF st.currentSale # <<>>
         THEN [st EXCEPT !.currentSale[1].legalDescriptions =
                           Append(@, parseLegalDescriptionRecord(fields))]
         ELSE st
    [] recordType = <<"D">> ->
         IF st.currentSale # <<>>
         THEN [st EXCEPT !.currentSale[1].interests =
                           Append(@, parseInterestRecord(fields))]
         ELSE st
    [] OTHER ->
         [st EXCEPT !.parseErrors = Append(@, lineNo), !.currentSale = <<>>]

\* a line loop that reports a C or D line met while no sale is in progress
parseLine_orphanIsError(st, fields, lineNo) ==
  LET recordType == Field(fields, 0) IN
  CASE recordType = <<"A">> ->
         [st EXCEPT !.header = <<parseHeaderRecord(fields)>>]
    [] recordType = <<"B">> ->
         [st EXCEPT !.sales = @ \o st.currentSale,
                    !.currentSale = <<parseSaleRecord(fields, st.filename)>>]
    [] recordType = <<"C">> ->
         IF st.currentSale # <<>>
         THEN [st EXCEPT !.currentSale[1].legalDescriptions =
                           Append(@, parseLegalDescriptionRecord(fields))]
         ELSE [st EXCEPT !.parseErrors = Append(@, lineNo)]
    [] recordType = <<"D">> ->
         IF st.currentSale # <<>>
         THEN [st EXCEPT !.currentSale[1].interests =
                           Append(@, parseInterestRecord(fields))]
         ELSE [st EXCEPT !.parseErrors = Append(@, lineNo)]
    [] OTHER ->
         [st EXCEPT !.parseErrors = Append(@, lineNo)]

\* One iteration of the line loop of parseDatFile.  st carries the result
\* under construction; header and currentSale are <<>> for null and a
\* one-element sequence otherwise.
parseLine(st, fields, lineNo) ==
  LET recordType == Field(fields, 0) IN
  CASE recordType = <<"A">> ->
         [st EXCEPT !.header = <<parseHeaderRecord(fields)>>]
    [] recordType = <<"B">> ->
         [st EXCEPT !.sales = @ \o st.currentSale,
                    !.currentSale = <<parseSaleRecord(fields, st.filename)>>]
    [] recordType = <<"C">> ->
         IF st.currentSale # <<>>
         THEN [st EXCEPT !.currentSale[1].legalDescriptions =
                           Append(@, parseLegalDescriptionRecord(fields))]
         ELSE st
    [] recordType = <<"D">> ->
         IF st.currentSale # <<>>
         THEN [st EXCEPT !.currentSale[1].interests =
                           Append(@, parseInterestRecord(fields))]
         ELSE st
    [] OTHER ->
         [st EXCEPT !.parseErrors = Append(@, lineNo)]

RECURSIVE parseLines(_, _, _)
parseLines(st, lines, i) ==
  IF i > Len(lines) THEN st
  ELSE parseLines(parseLine(st, lines[i], i), lines, i + 1)

\* parseDatFile before the line loop: the empty result with the district of
\* the file name, and no sale in progress
parseStart(filename) ==
  [filename     |-> filename,
   header       |-> <<>>,
   sales        |-> <<>>,
   parseErrors  |-> <<>>,
   districtCode |-> districtMatch(filename),
   currentSale  |-> <<>>]

\* a return that forgets the sale in progress
parseFinish_dropLast(st) ==
  [filename     |-> st.filename,
   header       |-> st.header,
   districtCode |-> st.districtCode,
   parseErrors  |-> st.parseErrors,
   sales        |-> st.sales]

\* parseDatFile after the line loop: the sale in progress is pushed and the
\* result returned
parseFinish(st) ==
  [filename     |-> st.filename,
   header       |-> st.header,
   districtCode |-> st.districtCode,
   parseErrors  |-> st.parseErrors,
   sales        |-> st.sales \o st.currentSale]

\* parseDatFile of a readable file: the lines are the non-blank lines of the
\* content, each already split on ';'.
parseDatFile(file) ==
  parseFinish(parseLines(parseStart(file.name), file.lines, 1))

\* parseDatFiles: the results object before the loop
NoBatch(paths) ==
  [totalFiles |-> Len(paths), processedFiles |-> 0, totalSales |-> 0,
   sales |-> <<>>, errors |-> <<>>]

\* parseDatFiles: the try block of one iteration, parseDatFile having returned
\* parsed
batchParsed(results, filePath, parsed) ==
  [results EXCEPT
     !.sales = @ \o parsed.sales,
     !.totalSales = @ + Len(parsed.sales),
     !.processedFiles = @ + 1,
     !.errors = IF Len(parsed.parseErrors) > 0
                THEN Append(@, [file |-> filePath,
                                errors |-> parsed.parseErrors])
                ELSE @]

ReadError == <<"E", "N", "O", "E", "N", "T">>

\* parseDatFiles: the catch block of one iteration
batchThrown(results, filePath) ==
  [results EXCEPT
     !.errors = Append(@, [file |-> filePath,
                           errors |-> <<[error |-> ReadError]>>])]


(***************************************************************************)
(* Source files.  A file is its name, whether readFileSync succeeds on it, *)
(* and its non-blank lines split on ';'.                                   *)
(***************************************************************************)
D214 == <<"2", "1", "4">>
D999 == <<"9", "9", "9">>
P1 == <<"7">>
P2 == <<"8">>
P3 == <<"9">>
Date1 == <<"2", "0", "2", "5", "1", "0", "2", "5">>

ALine(d) == << <<"A">>, <<"R">>, d, E, E >>
BLine(d, p, s, cd) == << <<"B">>, d, p, s, E, E, E, E, E, E, E, E, E, cd >>
CLine(d, p, s, desc) == << <<"C">>, d, p, s, E, desc >>
DLine(d, p, s, t) == << <<"D">>, d, p, s, E, t >>

NameA == <<"2", "1", "4", "_", "a", ".", "D", "A", "T">>
NameB == <<"b", ".", "d", "a", "t">>
NameC == <<"2", "1", "4", "_", "c", ".", "D", "A", "T">>
NameX == <<"2", "1", "4", "_", "x", ".", "D", "A", "T">>
NameT == <<"n", ".", "t", "x", "t">>

\* a sale with one legal description and one purchaser, then a sale whose
\* contract date field is empty
FileA ==
  [name |-> NameA, readable |-> TRUE,
   lines |-> << ALine(D214),
                BLine(D214, P1, <<"1">>, Date1),
                CLine(D214, P1, <<"1">>, <<"1", "/", "2">>),
                DLine(D214, P1, <<"1">>, <<"P">>),
                BLine(D214, P2, <<"1">>, E) >>]

\* no district in the name; a repeat of FileA's first sale, a sale whose
\* interest line has no type tag, and a sale of a district that is not seeded
FileB ==
  [name |-> NameB, readable |-> TRUE,
   lines |-> << ALine(D214),
                BLine(D214, P1, <<"1">>, Date1),
                BLine(D214, P3, <<"2">>, Date1),
                DLine(D214, P3, <<"2">>, E),
                BLine(D999, P3, <<"1">>, Date1) >>]

\* a file readFileSync throws on
FileX == [name |-> NameX, readable |-> FALSE, lines |-> <<>>]

\* same name as FileA, other content: a sale whose interest line has no type
\* tag
FileA2 ==
  [name |-> NameA, readable |-> TRUE,
   lines |-> << BLine(D214, P2, <<"2">>, Date1),
                DLine(D214, P2, <<"2">>, E) >>]

\* one sale with a legal description
FileC ==
  [name |-> NameC, readable |-> TRUE,
   lines |-> << BLine(D214, P3, <<"3">>, Date1),
                CLine(D214, P3, <<"3">>, <<"S", "P", "4">>) >>]

\* neither a district in the name nor a header line
NameU == <<"u", ".", "d", "a", "t">>
FileU ==
  [name |-> NameU, readable |-> TRUE,
   lines |-> << BLine(D214, P1, <<"1">>, Date1) >>]

\* not a DAT file
FileT == [name |-> NameT, readable |-> TRUE, lines |-> <<>>]

Dir1 == <<"d", "1">>
Dir2 == <<"d", "2">>
Dir3 == <<"d", "3">>

\* the invocations considered: source directory, --type, --force
CommandLines ==
  ({Dir1, Dir2, Dir3} \X {"weekly"} \X BOOLEAN)
    \cup {<<Dir2, "annual", FALSE>>}

\* readdirSync(dirPath): the entries of each source directory
readdirSync(dirPath) ==
  CASE dirPath = Dir1 -> <<FileB, FileT, FileA>>
    [] dirPath = Dir2 -> <<FileC, FileA2>>
    [] OTHER -> <<FileU, FileX, FileC>>

toLowerCase(c) ==
  CASE c = "D" -> "d" [] c = "A" -> "a" [] c = "T" -> "t" [] OTHER -> c

endsWithDat(name) ==
  /\ Len(name) >= 4
  /\ [j \in 1..4 |-> toLowerCase(name[Len(name) - 4 + j])]
       = <<".", "d", "a", "t">>

RECURSIVE SelectDat(_)
SelectDat(entries) ==
  IF entries = <<>> THEN <<>>
  ELSE IF endsWithDat(Head(entries).name)
       THEN <<Head(entries)>> \o SelectDat(Tail(entries))
       ELSE SelectDat(Tail(entries))

join(dirPath, name) == dirPath \o <<"/">> \o name

RECURSIVE basename(_)
basename(path) ==
  IF \E j \in 1..Len(path) : path[j] = "/"
  THEN basename(Tail(path)) ELSE path

\* the rows seedReferenceData offers to the districts table
districtCodes == {D214}

\* the rows seedReferenceData offers to the zone_codes table
zoneCodes == {<<"R", "2">>}

\* db.exec(schema) on one table: every statement of the schema is CREATE ...
\* IF NOT EXISTS, so a table that exists keeps its rows (a table is its set
\* of rows; a new table is empty)
execSchema_dropAndCreate(table) == {}

execSchema(table) == table

\* seedReferenceData on one reference table: INSERT OR IGNORE of every known
\* code
seedReferenceData(table, codes) == table \cup codes

(***************************************************************************)
(* Storage.  db is the state of one connection's view of the database:     *)
(* the three data tables and sqlite3_last_insert_rowid.                    *)
(***************************************************************************)
NextId(table) == Cardinality(table) + 1

\* UNIQUE(district_code, property_id, sale_sequence, contract_date): SQL NULLs
\* are distinct from each other in a UNIQUE constraint
UniqueConflict(sales, sale) ==
  \E r \in sales :
    /\ r.district_code = sale.districtCode
    /\ r.property_id = sale.propertyId
    /\ r.sale_sequence = sale.saleSequence
    /\ r.contract_date = sale.contractDate
    /\ sale.contractDate # NULL

\* insertSaleStmt.run: the error code, "" when the row is inserted
SaleInsertError(db, districts, sale) ==
  IF sale.districtCode = NULL \/ sale.propertyId = NULL
  THEN "SQLITE_CONSTRAINT_NOTNULL"
  ELSE IF UniqueConflict(db.property_sales, sale)
  THEN "SQLITE_CONSTRAINT_UNIQUE"
  ELSE IF sale.districtCode \notin districts
  THEN "SQLITE_CONSTRAINT_FOREIGNKEY"
  ELSE ""

\* the legal-description loop of insertSale from index j on; stops at the
\* first statement that throws
RECURSIVE InsertLegalDescs(_, _, _, _)
InsertLegalDescs(st, saleId, lds, j) ==
  IF j > Len(lds) THEN st
  ELSE IF lds[j].districtCode = NULL \/ lds[j].propertyId = NULL
  THEN [st EXCEPT !.err = "SQLITE_CONSTRAINT_NOTNULL"]
  ELSE LET id == NextId(st.db.legal_descriptions) IN
       InsertLegalDescs(
         [st EXCEPT !.db.legal_descriptions = @ \cup
                      {[id |-> id, sale_id |-> saleId,
                        district_code |-> lds[j].districtCode,
                        property_id |-> lds[j].propertyId,
                        sale_sequence |-> lds[j].saleSequence,
                        legal_description |-> lds[j].legalDescription,
                        lot_number |-> lds[j].lotNumber,
                        plan_number |-> lds[j].planNumber,
                        plan_type |-> lds[j].planType]},
                    !.db.lastInsertRowid = id],
         saleId, lds, j + 1)

\* the interest loop of insertSale
RECURSIVE InsertInterests(_, _, _, _)
InsertInterests(st, saleId, ints, j) ==
  IF j > Len(ints) THEN st
  ELSE IF \/ ints[j].districtCode = NULL \/ ints[j].propertyId = NULL
          \/ ints[j].interestType = NULL
  THEN [st EXCEPT !.err = "SQLITE_CONSTRAINT_NOTNULL"]
  ELSE LET id == NextId(st.db.sale_interests) IN
       InsertInterests(
         [st EXCEPT !.db.sale_interests = @ \cup
                      {[id |-> id, sale_id |-> saleId,
                        district_code |-> ints[j].districtCode,
                        property_id |-> ints[j].propertyId,
                        sale_sequence |-> ints[j].saleSequence,
                        interest_type |-> ints[j].interestType]},
                    !.db.lastInsertRowid = id],
         saleId, ints, j + 1)

\* insertSale(db, sale, fileType): the storage after the call and the code of
\* the error it threw ("" when it returned)
insertSale(db, districts, sale, fileType) ==
  LET e == SaleInsertError(db, districts, sale) IN
  IF e # "" THEN [db |-> db, err |-> e]
  ELSE LET saleId == NextId(db.property_sales)
           st1 == [db |-> [db EXCEPT
                       !.property_sales = @ \cup
                         {[id |-> saleId,
                           district_code |-> sale.districtCode,
                           property_id |-> sale.propertyId,
                           sale_sequence |-> sale.saleSequence,
                           contract_date |-> sale.contractDate,
                           source_file |-> sale.sourceFile,
                           file_type |-> fileType]},
                       !.lastInsertRowid = saleId],
                   err |-> ""]
           st2 == InsertLegalDescs(st1, saleId, sale.legalDescriptions, 1)
       IN IF st2.err # "" THEN st2
          ELSE InsertInterests(st2, saleId, sale.interests, 1)

\* a ledger check that accepts an attempt that is still processing
isFileImported_processing(log, filename, districtCode) ==
  \E r \in log : /\ r.filename = filename
                 /\ r.district_code = districtCode
                 /\ r.status = "processing"

\* a ledger check that accepts an attempt of any status
isFileImported_anyStatus(log, filename, districtCode) ==
  \E r \in log : r.filename = filename /\ r.district_code = districtCode

\* a ledger check that only accepts attempts declared weekly
isFileImported_weeklyOnly(log, filename, districtCode) ==
  \E r \in log : /\ r.filename = filename
                 /\ r.district_code = districtCode
                 /\ r.status = "completed"
                 /\ r.file_type = "weekly"

\* isFileImported
isFileImported(log, filename, districtCode) ==
  \E r \in log : /\ r.filename = filename
                 /\ r.district_code = districtCode
                 /\ r.status = "completed"


\* the import_log row a (filename, district_code) pair has, as a set
LogRows(log, filename, districtCode) ==
  {r \in log : r.filename = filename /\ r.district_code = districtCode}

\* a begin that is a plain INSERT, without the ON CONFLICT clause and
\* without the constraint it names
logImportStart_plainInsert(log, seq, last, filename, filePath, fileType, districtCode, now, burn) ==
  LET id == seq + 1 IN
  [log |-> log \cup
             {[id |-> id, filename |-> filename, file_path |-> filePath,
               file_type |-> fileType, district_code |-> districtCode,
               records_processed |-> 0, records_inserted |-> 0,
               records_skipped |-> 0, records_error |-> 0,
               status |-> "processing", error_message |-> NULL,
               started_at |-> now, completed_at |-> 0]},
   seq |-> id, last |-> id, importId |-> id]

\* logImportStart: the ledger, its AUTOINCREMENT counter, the connection's
\* last insert rowid and the returned id.  On the DO UPDATE path no row is
\* inserted, so result.lastInsertRowid is whatever the connection inserted
\* last; the rowid prepared for the abandoned insert may or may not be
\* reused (burn).
logImportStart(log, seq, last, filename, filePath, fileType, districtCode, now, burn) ==
  LET old == LogRows(log, filename, districtCode) IN
  IF old = {}
  THEN LET id == seq + 1 IN
       [log |-> log \cup
                  {[id |-> id, filename |-> filename, file_path |-> filePath,
                    file_type |-> fileType, district_code |-> districtCode,
                    records_processed |-> 0, records_inserted |-> 0,
                    records_skipped |-> 0, records_error |-> 0,
                    status |-> "processing", error_message |-> NULL,
                    started_at |-> now, completed_at |-> 0]},
        seq |-> id, last |-> id, importId |-> id]
  ELSE LET row == CHOOSE r \in old : TRUE IN
       [log |-> (log \ {row}) \cup
                  {[row EXCEPT !.status = "processing", !.started_at = now,
                               !.error_message = NULL]},
        seq |-> IF burn THEN seq + 1 ELSE seq,
        last |-> last,
        importId |-> IF last # 0 THEN last ELSE row.id]

\* logImportComplete: UPDATE ... WHERE id = importId
logImportComplete(log, importId, st, now) ==
  {IF r.id = importId
   THEN [r EXCEPT !.status = "completed",
                  !.records_processed = st.processed,
                  !.records_inserted = st.inserted,
                  !.records_skipped = st.skipped,
                  !.records_error = st.errors,
                  !.completed_at = now]
   ELSE r : r \in log}

\* logImportFailed: UPDATE ... WHERE id = importId
logImportFailed(log, importId, errorMessage, now) ==
  {IF r.id = importId
   THEN [r EXCEPT !.status = "failed", !.error_message = errorMessage,
                  !.completed_at = now]
   ELSE r : r \in log}

(***************************************************************************)
(* The tool as a state machine.  One run is one invocation of main: it     *)
(* opens a connection, initialises the database and calls                  *)
(* processDirectory, which calls processFile for each listed file.         *)
(***************************************************************************)
VARIABLES
  districts,        \* table districts (its district_code column)
  zone_codes,       \* table zone_codes (its zone_code column)
  db,               \* data tables and last insert rowid of the connection
  import_log,       \* table import_log
  import_log_seq,   \* sqlite_sequence entry of import_log
  pc,               \* where the run is
  run,              \* number of runs started; also the clock of datetime('now')
  dirPath, fileType, force,   \* arguments of processDirectory
  files,            \* processDirectory: the listed DAT files
  fileIdx,          \* processDirectory: index of the current file
  results,          \* processDirectory: the summary under construction
  result,           \* value the last processFile call returned
  importId,         \* processFile: id returned by logImportStart
  stats,            \* processFile: counters of the attempt
  k,                \* insertTransaction: index of the next sale
  snapshot,         \* data tables at the last BEGIN, restored by ROLLBACK
  runStart,         \* history: tables when the run started
  prev,             \* history: whether the previous run returned a summary
                    \* without errors, and over which directory
  committed         \* history: ledger keys whose insert transaction committed

\* the parser run on its own: parseDatFiles over a list of files
VARIABLES
  filePaths,        \* parseDatFiles: the list it is called with
  pathIdx,          \* parseDatFiles: index of the current file
  batch,            \* parseDatFiles: the results object
  parseState,       \* parseDatFile: result and currentSale under construction
  lineIdx,          \* parseDatFile: index of the next line
  lastParsed,       \* value the last parseDatFile call returned, <<>> if none
  ppc               \* where the parser is

\* the command-line entry point on its own
VARIABLES
  argv,             \* process.argv.slice(2)
  options,          \* main: the value parseArgs returned
  cpc,              \* where main is
  exitCode,         \* exit status of the process once it has exited
  dbOpened,         \* whether initDatabase was called
  ingestArgs        \* arguments of the processDirectory call, <<>> if none

ingestVars == <<districts, zone_codes, db, import_log, import_log_seq, pc,
                run, dirPath, fileType, force, files, fileIdx, results,
                result, importId, stats, k, snapshot, runStart, prev,
                committed>>
parseVars == <<filePaths, pathIdx, batch, parseState, lineIdx, lastParsed,
               ppc>>
cliVars == <<argv, options, cpc, exitCode, dbOpened, ingestArgs>>

vars == <<ingestVars, parseVars, cliVars>>

\* the parser and the entry point at rest
ParseIdle ==
  /\ filePaths = <<>>
  /\ pathIdx = 1
  /\ batch = NoBatch(<<>>)
  /\ parseState = parseStart(E)
  /\ lineIdx = 1
  /\ lastParsed = <<>>
  /\ ppc = "end"

Undefined == "undefined"

\* parseArgs: the options object before the loop
NoOptions == [source |-> "null", type |-> "weekly", force |-> FALSE,
              help |-> FALSE]

CliIdle ==
  /\ argv = <<>>
  /\ options = NoOptions
  /\ cpc = "exited"
  /\ exitCode = 0
  /\ dbOpened = FALSE
  /\ ingestArgs = <<>>

NoStats == [processed |-> 0, inserted |-> 0, skipped |-> 0, errors |-> 0]
NoResult == [kind |-> "none", stats |-> NoStats, error |-> NULL]
NoResults == [total |-> 0, processed |-> 0, inserted |-> 0, skipped |-> 0,
              errors |-> 0]
Tables(d) == [property_sales |-> d.property_sales,
              legal_descriptions |-> d.legal_descriptions,
              sale_interests |-> d.sale_interests]
NoTables == [property_sales |-> {}, legal_descriptions |-> {},
             sale_interests |-> {}]

IngestInit ==
  /\ districts = {}
  /\ zone_codes = {}
  /\ db = [property_sales |-> {}, legal_descriptions |-> {},
           sale_interests |-> {}, lastInsertRowid |-> 0]
  /\ import_log = {}
  /\ import_log_seq = 0
  /\ pc = "idle"
  /\ run = 0
  /\ dirPath = Dir1
  /\ fileType = "weekly"
  /\ force = FALSE
  /\ files = <<>>
  /\ fileIdx = 1
  /\ results = NoResults
  /\ result = NoResult
  /\ importId = 0
  /\ stats = NoStats
  /\ k = 1
  /\ snapshot = NoTables
  /\ runStart = [tables |-> NoTables, log |-> {}]
  /\ prev = [ok |-> FALSE, dirPath |-> Dir1]
  /\ committed = {}

Init == IngestInit /\ ParseIdle /\ CliIdle

\* the file processFile is called on, its path and what processFile derives
CurFile == files[fileIdx]
CurPath == join(dirPath, CurFile.name)
CurName == basename(CurPath)
CurParsed == parseDatFile(CurFile)
HeaderDistrict(parsed) ==
  IF parsed.header = <<>> THEN NULL ELSE parsed.header[1].districtCode

\* a district that stops at the header, without the literal
DistrictOf_noFallback(parsed) ==
  OrElse(parsed.districtCode, HeaderDistrict(parsed))

\* parsed.districtCode || parsed.header?.districtCode || 'unknown'
DistrictOf(parsed) ==
  OrElse(parsed.districtCode,
         OrElse(HeaderDistrict(parsed),
                <<"u", "n", "k", "n", "o", "w", "n">>))

CurDistrict == DistrictOf(CurParsed)

\* seedReferenceData: the rowid of the last row it really inserted (districts
\* first, then zone codes), 0 when it inserted none
SeedLast(ds, zs) ==
  IF ~(zoneCodes \subseteq zs) THEN Cardinality(zs \cup zoneCodes)
  ELSE IF ~(districtCodes \subseteq ds)
  THEN Cardinality(ds \cup districtCodes)
  ELSE 0

\* main up to the loop of processDirectory: a new connection, initDatabase,
\* the directory listing
StartRun(d, t, f) ==
  /\ pc \in {"idle", "done", "threw", "killed"}
  /\ run < MaxRuns
  /\ run' = run + 1
  /\ districts' = seedReferenceData(execSchema(districts), districtCodes)
  /\ zone_codes' = seedReferenceData(execSchema(zone_codes), zoneCodes)
  /\ db' = [property_sales |-> execSchema(db.property_sales),
            legal_descriptions |-> execSchema(db.legal_descriptions),
            sale_interests |-> execSchema(db.sale_interests),
            lastInsertRowid |-> SeedLast(districts, zone_codes)]
  /\ import_log' = execSchema(import_log)
  /\ dirPath' = d
  /\ fileType' = t
  /\ force' = f
  /\ files' = SelectDat(readdirSync(d))
  /\ fileIdx' = 1
  /\ results' = [NoResults EXCEPT !.total = Len(files')]
  /\ result' = NoResult
  /\ importId' = 0
  /\ stats' = NoStats
  /\ k' = 1
  /\ snapshot' = NoTables
  /\ runStart' = [tables |-> Tables(db), log |-> import_log]
  /\ prev' = IF pc = "done" /\ results.errors = 0
             THEN [ok |-> TRUE, dirPath |-> dirPath]
             ELSE [ok |-> FALSE, dirPath |-> Dir1]
  /\ pc' = IF Len(files') = 0 THEN "done" ELSE "file"
  /\ UNCHANGED <<import_log_seq, committed>>
  /\ UNCHANGED <<parseVars, cliVars>>

\* processFile: parseDatFile throws (readFileSync fails); nothing catches it
\* in processFile or processDirectory, main closes the connection
ParseThrows ==
  /\ pc = "file"
  /\ ~CurFile.readable
  /\ pc' = "threw"
  /\ UNCHANGED <<districts, zone_codes, db, import_log, import_log_seq, run, dirPath,
                 fileType, force, files, fileIdx, results, result, importId,
                 stats, k, snapshot, runStart, prev, committed>>
  /\ UNCHANGED <<parseVars, cliVars>>

\* processFile: the already-imported early return
SkipFile ==
  /\ pc = "file"
  /\ CurFile.readable
  /\ ~force /\ isFileImported(import_log, CurName, CurDistrict)
  /\ result' = [NoResult EXCEPT !.kind = "skipped"]
  /\ pc' = "returned"
  /\ UNCHANGED <<districts, zone_codes, db, import_log, import_log_seq, run, dirPath,
                 fileType, force, files, fileIdx, results, importId, stats,
                 k, snapshot, runStart, prev, committed>>
  /\ UNCHANGED <<parseVars, cliVars>>

\* processFile: logImportStart, the counters, and BEGIN of insertTransaction
BeginFile ==
  /\ pc = "file"
  /\ CurFile.readable
  /\ ~(~force /\ isFileImported(import_log, CurName, CurDistrict))
  /\ \E burn \in BOOLEAN :
       LET r == logImportStart(import_log, import_log_seq,
                               db.lastInsertRowid, CurName, CurPath,
                               fileType, CurDistrict, run, burn)
       IN /\ import_log' = r.log
          /\ import_log_seq' = r.seq
          /\ db' = [db EXCEPT !.lastInsertRowid = r.last]
          /\ importId' = r.importId
  /\ stats' = [NoStats EXCEPT !.processed = Len(CurParsed.sales)]
  /\ k' = 1
  /\ snapshot' = Tables(db)
  /\ pc' = "txn"
  /\ UNCHANGED <<districts, zone_codes, run, dirPath, fileType, force, files, fileIdx,
                 results, result, runStart, prev, committed>>
  /\ UNCHANGED <<parseVars, cliVars>>

\* a catch that does not tell a uniqueness violation from other errors
CountOutcome_noUniqueCase(st, err) ==
  IF err = "" THEN [st EXCEPT !.inserted = @ + 1]
  ELSE [st EXCEPT !.errors = @ + 1]

\* the try/catch around insertSale in insertTransaction: which counter the
\* outcome of one insertSale call increments
CountOutcome(st, err) ==
  IF err = "" THEN [st EXCEPT !.inserted = @ + 1]
  ELSE IF err = "SQLITE_CONSTRAINT_UNIQUE"
  THEN [st EXCEPT !.skipped = @ + 1]
  ELSE [st EXCEPT !.errors = @ + 1]

\* one iteration of the loop of insertTransaction
InsertRecord ==
  /\ pc = "txn"
  /\ k <= Len(CurParsed.sales)
  /\ LET r == insertSale(db, districts, CurParsed.sales[k], fileType) IN
       /\ db' = r.db
       /\ stats' = CountOutcome(stats, r.err)
  /\ k' = k + 1
  /\ UNCHANGED <<districts, zone_codes, import_log, import_log_seq, pc, run, dirPath,
                 fileType, force, files, fileIdx, results, result, importId,
                 snapshot, runStart, prev, committed>>
  /\ UNCHANGED <<parseVars, cliVars>>

\* insertTransaction returns: COMMIT succeeded
Commit ==
  /\ pc = "txn"
  /\ k > Len(CurParsed.sales)
  /\ committed' = committed \cup {<<CurName, CurDistrict>>}
  /\ pc' = "committed"
  /\ UNCHANGED <<districts, zone_codes, db, import_log, import_log_seq, run, dirPath,
                 fileType, force, files, fileIdx, results, result, importId,
                 stats, k, snapshot, runStart, prev>>
  /\ UNCHANGED <<parseVars, cliVars>>

CommitError == <<"c", "o", "m", "m", "i", "t">>

\* insertTransaction throws: COMMIT failed, the wrapper rolls back, and the
\* catch of processFile calls logImportFailed and returns the failure
CommitFails ==
  /\ pc = "txn"
  /\ k > Len(CurParsed.sales)
  /\ db' = [db EXCEPT !.property_sales = snapshot.property_sales,
                      !.legal_descriptions = snapshot.legal_descriptions,
                      !.sale_interests = snapshot.sale_interests]
  /\ import_log' = logImportFailed(import_log, importId, CommitError, run)
  /\ result' = [kind |-> "failure", stats |-> NoStats, error |-> CommitError]
  /\ pc' = "returned"
  /\ UNCHANGED <<districts, zone_codes, import_log_seq, run, dirPath, fileType, force,
                 files, fileIdx, results, importId, stats, k, snapshot,
                 runStart, prev, committed>>
  /\ UNCHANGED <<parseVars, cliVars>>

\* processFile: logImportComplete and the success return
CompleteFile ==
  /\ pc = "committed"
  /\ import_log' = logImportComplete(import_log, importId, stats, run)
  /\ result' = [kind |-> "success", stats |-> stats, error |-> NULL]
  /\ pc' = "returned"
  /\ UNCHANGED <<districts, zone_codes, db, import_log_seq, run, dirPath, fileType,
                 force, files, fileIdx, results, importId, stats, k,
                 snapshot, runStart, prev, committed>>
  /\ UNCHANGED <<parseVars, cliVars>>

\* a loop body that does not count a skipped file
Accumulate_dropsSkipped ==
  /\ pc = "returned"
  /\ results' =
       IF result.kind = "skipped" THEN results
       ELSE IF result.kind = "success"
       THEN [results EXCEPT !.processed = @ + 1,
                            !.inserted = @ + result.stats.inserted]
       ELSE [results EXCEPT !.errors = @ + 1]
  /\ fileIdx' = IF fileIdx < Len(files) THEN fileIdx + 1 ELSE fileIdx
  /\ pc' = IF fileIdx < Len(files) THEN "file" ELSE "done"
  /\ UNCHANGED <<districts, zone_codes, db, import_log, import_log_seq, run, dirPath,
                 fileType, force, files, result, importId, stats, k,
                 snapshot, runStart, prev, committed>>
  /\ UNCHANGED <<parseVars, cliVars>>

\* processDirectory: the loop body after processFile returned, then the next
\* file or the return of the summary
Accumulate ==
  /\ pc = "returned"
  /\ results' =
       IF result.kind = "skipped" THEN [results EXCEPT !.skipped = @ + 1]
       ELSE IF result.kind = "success"
       THEN [results EXCEPT !.processed = @ + 1,
                            !.inserted = @ + result.stats.inserted]
       ELSE [results EXCEPT !.errors = @ + 1]
  /\ fileIdx' = IF fileIdx < Len(files) THEN fileIdx + 1 ELSE fileIdx
  /\ pc' = IF fileIdx < Len(files) THEN "file" ELSE "done"
  /\ UNCHANGED <<districts, zone_codes, db, import_log, import_log_seq, run, dirPath,
                 fileType, force, files, result, importId, stats, k,
                 snapshot, runStart, prev, committed>>
  /\ UNCHANGED <<parseVars, cliVars>>

\* the process is terminated: an open transaction is rolled back, the
\* connection and everything the process held in memory are gone
Kill ==
  /\ pc \in {"file", "txn", "committed", "returned"}
  /\ db' = IF pc = "txn"
           THEN [property_sales |-> snapshot.property_sales,
                 legal_descriptions |-> snapshot.legal_descriptions,
                 sale_interests |-> snapshot.sale_interests,
                 lastInsertRowid |-> 0]
           ELSE [db EXCEPT !.lastInsertRowid = 0]
  /\ pc' = "killed"
  /\ files' = <<>>
  /\ fileIdx' = 1
  /\ results' = NoResults
  /\ result' = NoResult
  /\ importId' = 0
  /\ stats' = NoStats
  /\ k' = 1
  /\ snapshot' = NoTables
  /\ UNCHANGED <<districts, zone_codes, import_log, import_log_seq, run, dirPath,
                 fileType, force, runStart, prev, committed>>
  /\ UNCHANGED <<parseVars, cliVars>>

Next ==
  \/ \E c \in CommandLines : StartRun(c[1], c[2], c[3])
  \/ ParseThrows
  \/ SkipFile
  \/ BeginFile
  \/ InsertRecord
  \/ Commit
  \/ CommitFails
  \/ CompleteFile
  \/ Accumulate
  \/ Kill

Spec == Init /\ [][Next]_vars

(***************************************************************************)
(* The parser on its own.  parseDatFiles is called on a list of files;     *)
(* each readable file goes through parseDatFile line by line.              *)
(***************************************************************************)
\* Longest file content, in lines, and longest list of files.
MaxLines == 5
MaxBatch == 3

XLine == << <<"X">>, D214, P1 >>

\* the lines file contents are made of: a header, a sale, two legal
\* descriptions, an interest, a line with an unknown record type
LineKinds ==
  { ALine(D214),
    BLine(D214, P1, <<"1">>, Date1),
    CLine(D214, P1, <<"1">>, <<"1", "/", "2">>),
    CLine(D214, P1, <<"1">>, <<"S", "P", "4">>),
    DLine(D214, P1, <<"1">>, <<"P">>),
    XLine }

Contents == UNION {[1..n -> LineKinds] : n \in 0..MaxLines}

\* two sales around a line with an unknown record type
FileG ==
  [name |-> <<"g", ".", "d", "a", "t">>, readable |-> TRUE,
   lines |-> << BLine(D214, P1, <<"1">>, Date1), XLine,
                BLine(D214, P2, <<"1">>, Date1) >>]

BatchFiles == {FileA, FileC, FileG, FileX}

\* the calls considered: one file of any content, or a list of the files
\* above
\* Longest content made of the field-level lines below.
MaxShort == 2

\* sequence fields: numbers, zero, empty, not a number, digits then a letter
SeqFields == {<<"1">>, <<"2">>, <<"0">>, E, <<"x">>, <<"1", "2">>,
              <<"2", "x">>}

\* legal descriptions: lot/plan, strata plans in both cases, and others
Descriptions ==
  {<<"1", "3", "/", "2", "0", "4">>, <<"S", "P", "1", "2">>,
   <<"s", "p", "1", "2">>, <<"x">>, <<"1", "/">>, <<"/", "2">>,
   <<"S", "P">>, <<"1", "/", "2", "/", "3">>, <<"S", "P", "1", "x">>, E}

\* lines that differ in one field: B lines in the sequence field (one
\* without it), C lines in the description (one without it), C and D lines
\* in their identifiers
FieldLines ==
  {BLine(D214, P1, s, Date1) : s \in SeqFields}
    \cup {<< <<"B">>, D214, P1 >>}
    \cup {CLine(D214, P1, <<"1">>, d) : d \in Descriptions}
    \cup {<< <<"C">>, D214, P1, <<"1">> >>}
    \cup {CLine(D214, P2, <<"1">>, <<"x">>), CLine(D999, P1, <<"1">>, <<"x">>),
          CLine(D214, P1, <<"2">>, <<"x">>)}
    \cup {DLine(D214, P1, <<"1">>, <<"V">>), DLine(D214, P2, <<"1">>, <<"P">>),
          DLine(D214, P1, <<"2">>, <<"P">>)}

ShortContents == UNION {[1..n -> FieldLines] : n \in 0..MaxShort}

\* the calls considered: one file of any content, or a list of the files
\* above
FilePathLists ==
  {<<[name |-> NameB, readable |-> TRUE, lines |-> c]>> :
       c \in Contents \cup ShortContents}
    \cup UNION {[1..n -> BatchFiles] : n \in 0..MaxBatch}

InitParse ==
  /\ IngestInit /\ CliIdle
  /\ filePaths \in FilePathLists
  /\ pathIdx = 1
  /\ batch = NoBatch(filePaths)
  /\ parseState = parseStart(E)
  /\ lineIdx = 1
  /\ lastParsed = <<>>
  /\ ppc = "next"

CurBatchFile == filePaths[pathIdx]

\* an iteration of parseDatFiles whose parseDatFile call throws without
\* a try around it: parseDatFiles is left at once
ReadFails_escapes ==
  /\ ppc = "next"
  /\ pathIdx <= Len(filePaths)
  /\ ~CurBatchFile.readable
  /\ ppc' = "end"
  /\ UNCHANGED <<filePaths, pathIdx, batch, parseState, lineIdx, lastParsed>>
  /\ UNCHANGED <<ingestVars, cliVars>>

\* parseDatFiles: an iteration whose parseDatFile call throws (readFileSync
\* fails); the catch records it and the loop goes on
ReadFails ==
  /\ ppc = "next"
  /\ pathIdx <= Len(filePaths)
  /\ ~CurBatchFile.readable
  /\ batch' = batchThrown(batch, CurBatchFile.name)
  /\ pathIdx' = pathIdx + 1
  /\ lastParsed' = <<>>
  /\ UNCHANGED <<filePaths, parseState, lineIdx, ppc>>
  /\ UNCHANGED <<ingestVars, cliVars>>

\* parseDatFile up to its line loop
OpenFile ==
  /\ ppc = "next"
  /\ pathIdx <= Len(filePaths)
  /\ CurBatchFile.readable
  /\ parseState' = parseStart(CurBatchFile.name)
  /\ lineIdx' = 1
  /\ lastParsed' = <<>>
  /\ ppc' = "lines"
  /\ UNCHANGED <<filePaths, pathIdx, batch>>
  /\ UNCHANGED <<ingestVars, cliVars>>

\* parseDatFile: one iteration of the line loop
LineStep ==
  /\ ppc = "lines"
  /\ lineIdx <= Len(CurBatchFile.lines)
  /\ parseState' = parseLine(parseState, CurBatchFile.lines[lineIdx], lineIdx)
  /\ lineIdx' = lineIdx + 1
  /\ UNCHANGED <<filePaths, pathIdx, batch, lastParsed, ppc>>
  /\ UNCHANGED <<ingestVars, cliVars>>

\* parseDatFile returns, and parseDatFiles adds the result to its own
FinishFile ==
  /\ ppc = "lines"
  /\ lineIdx > Len(CurBatchFile.lines)
  /\ lastParsed' = <<parseFinish(parseState)>>
  /\ batch' = batchParsed(batch, CurBatchFile.name, parseFinish(parseState))
  /\ pathIdx' = pathIdx + 1
  /\ ppc' = "next"
  /\ UNCHANGED <<filePaths, parseState, lineIdx>>
  /\ UNCHANGED <<ingestVars, cliVars>>

\* parseDatFiles returns its results
ReturnBatch ==
  /\ ppc = "next"
  /\ pathIdx > Len(filePaths)
  /\ ppc' = "end"
  /\ UNCHANGED <<filePaths, pathIdx, batch, parseState, lineIdx, lastParsed>>
  /\ UNCHANGED <<ingestVars, cliVars>>

NextParse ==
  \/ ReadFails
  \/ OpenFile
  \/ LineStep
  \/ FinishFile
  \/ ReturnBatch

SpecParse == InitParse /\ [][NextParse]_vars

(***************************************************************************)
(* The command-line entry point on its own: parseArgs and main up to the   *)
(* call of processDirectory.  Arguments are strings.                       *)
(***************************************************************************)
\* Longest command line, in arguments.
MaxArgs == 4

Tokens == {"--source", "--type", "--force", "--help", "--bogus",
           "d1", "nodir", "weekly", "annual", "monthly"}

CommandArgs == UNION {[1..n -> Tokens] : n \in 0..MaxArgs}

\* args[i], 1-based; undefined past the end
Arg(args, i) == IF i <= Len(args) THEN args[i] ELSE Undefined

\* the loop of parseArgs from index i on; --help prints and exits at once
RECURSIVE parseArgsFrom(_, _, _)
parseArgsFrom(args, i, opts) ==
  IF i > Len(args) THEN opts
  ELSE CASE args[i] \in {"--source", "-s"} ->
              parseArgsFrom(args, i + 2,
                            [opts EXCEPT !.source = Arg(args, i + 1)])
         [] args[i] \in {"--type", "-t"} ->
              parseArgsFrom(args, i + 2,
                            [opts EXCEPT !.type = Arg(args, i + 1)])
         [] args[i] \in {"--force", "-f"} ->
              parseArgsFrom(args, i + 1, [opts EXCEPT !.force = TRUE])
         [] args[i] \in {"--help", "-h"} ->
              [opts EXCEPT !.help = TRUE]
         [] OTHER -> parseArgsFrom(args, i + 1, opts)

parseArgs(args) == parseArgsFrom(args, 1, NoOptions)

\* !options.source
NoSource(opts) == opts.source \in {"null", Undefined, ""}

\* existsSync(path): the paths that exist
existsSync(path) == path \in {"d1"}

InitCli ==
  /\ IngestInit /\ ParseIdle
  /\ argv \in CommandArgs
  /\ options = NoOptions
  /\ cpc = "start"
  /\ exitCode = 0
  /\ dbOpened = FALSE
  /\ ingestArgs = <<>>

\* main: parseArgs, which exits with status 0 on --help
ParseArgs ==
  /\ cpc = "start"
  /\ options' = parseArgs(argv)
  /\ cpc' = IF options'.help THEN "exited" ELSE "parsed"
  /\ exitCode' = 0
  /\ UNCHANGED <<argv, dbOpened, ingestArgs>>
  /\ UNCHANGED <<ingestVars, parseVars>>

\* main: --source is required
SourceMissing ==
  /\ cpc = "parsed"
  /\ NoSource(options)
  /\ exitCode' = 1
  /\ cpc' = "exited"
  /\ UNCHANGED <<argv, options, dbOpened, ingestArgs>>
  /\ UNCHANGED <<ingestVars, parseVars>>

\* main: the source path does not exist
SourceNotFound ==
  /\ cpc = "parsed"
  /\ ~NoSource(options) /\ ~existsSync(options.source)
  /\ exitCode' = 1
  /\ cpc' = "exited"
  /\ UNCHANGED <<argv, options, dbOpened, ingestArgs>>
  /\ UNCHANGED <<ingestVars, parseVars>>

\* main: initDatabase
OpenDatabase ==
  /\ cpc = "parsed"
  /\ ~NoSource(options) /\ existsSync(options.source)
  /\ dbOpened' = TRUE
  /\ cpc' = "opened"
  /\ UNCHANGED <<argv, options, exitCode, ingestArgs>>
  /\ UNCHANGED <<ingestVars, parseVars>>

\* main: processDirectory is called; the process exits with 0 when it
\* returns and with 1 when it throws
ProcessAndExit ==
  /\ cpc = "opened"
  /\ ingestArgs' = <<options.source, options.type, options.force>>
  /\ \E threw \in BOOLEAN : exitCode' = IF threw THEN 1 ELSE 0
  /\ cpc' = "exited"
  /\ UNCHANGED <<argv, options, dbOpened>>
  /\ UNCHANGED <<ingestVars, parseVars>>

NextCli ==
  \/ ParseArgs
  \/ SourceMissing
  \/ SourceNotFound
  \/ OpenDatabase
  \/ ProcessAndExit

SpecCli == InitCli /\ [][NextCli]_vars


(***************************************************************************)
(* Properties                                                              *)
(***************************************************************************)
\* the ledger key processFile derives for a listed file
KeyName(file) == basename(join(dirPath, file.name))
KeyDistrict(file) == DistrictOf(parseDatFile(file))

\* log has a completed attempt for the key of file
HasCompleted(log, file) ==
  \E r \in log : /\ r.filename = KeyName(file)
                 /\ r.district_code = KeyDistrict(file)
                 /\ r.status = "completed"

\* every listed file was readable and had a completed attempt when the run
\* started
AllCompletedAtStart ==
  /\ pc \in {"file", "txn", "committed", "returned", "done"}
  /\ Len(files) > 0
  /\ \A j \in 1..Len(files) :
       files[j].readable /\ HasCompleted(runStart.log, files[j])

\* C1: a run with force=false over a directory whose files all have a
\* completed ledger attempt writes nothing (no sale, legal-description or
\* interest row, no import_log change) and reports every file skipped.
C1_RerunWritesNothing ==
  (AllCompletedAtStart /\ ~force) =>
     /\ Tables(db) = runStart.tables
     /\ import_log = runStart.log
     /\ results.processed = 0 /\ results.errors = 0 /\ results.inserted = 0
     /\ (pc = "done" => results.skipped = results.total)

C1_Witness ==
  /\ AllCompletedAtStart /\ ~force /\ pc = "done"
  /\ results.total = 2 /\ results.skipped = 2
  /\ runStart.tables.property_sales # {}


\* the run follows a run over the same directory that returned its summary
\* without a file in error
AfterCompletedRun ==
  /\ AllCompletedAtStart
  /\ prev.ok /\ prev.dirPath = dirPath

\* C2: a forced re-run over an unchanged directory after a completed run has
\* added no row to property_sales, legal_descriptions or sale_interests when
\* it returns.
C2_ForcedRerunAddsNoRows ==
  (AfterCompletedRun /\ force /\ pc = "done") =>
     Tables(db) = runStart.tables

SameNaturalKey(r1, r2) ==
  /\ r1.district_code = r2.district_code
  /\ r1.property_id = r2.property_id
  /\ r1.sale_sequence = r2.sale_sequence
  /\ r1.contract_date = r2.contract_date

\* C3: no two rows of property_sales have the same (district code, property
\* id, sale sequence, contract date).
C3_NaturalKeyUnique ==
  \A r1, r2 \in db.property_sales : SameNaturalKey(r1, r2) => r1 = r2

\* C4: a run over a directory with a file whose parse throws still returns
\* the summary, the failing file counted as errored and every file counted.
C4_ParseFailureIsolated ==
  (pc \in {"done", "threw"} /\ \E j \in 1..Len(files) : ~files[j].readable)
    => /\ pc = "done"
       /\ results.errors >= 1
       /\ results.processed + results.skipped + results.errors
            = results.total

\* the ledger rows of the file processFile is working on
CurRows ==
  {r \in import_log :
     r.filename = KeyName(CurFile) /\ r.district_code = KeyDistrict(CurFile)}

\* C5: when processFile returns success, the ledger row of that file's own
\* (filename, district code) is completed and carries the attempt's counts.
C5_OwnRowCompleted ==
  (pc = "returned" /\ result.kind = "success") =>
     \E r \in CurRows :
       /\ r.status = "completed"
       /\ r.records_processed = result.stats.processed
       /\ r.records_inserted = result.stats.inserted
       /\ r.records_skipped = result.stats.skipped
       /\ r.records_error = result.stats.errors

\* C6: with force=false processFile skips a readable file, writing nothing,
\* exactly when the ledger has a completed attempt for its (filename,
\* district code); otherwise it begins an attempt for that key.
C6_SkipIffCompleted ==
  [][(pc = "file" /\ CurFile.readable /\ ~force /\ pc' # "killed") =>
       IF HasCompleted(import_log, CurFile)
       THEN /\ pc' = "returned" /\ result'.kind = "skipped"
            /\ Tables(db') = Tables(db)
            /\ import_log' = import_log
            /\ import_log_seq' = import_log_seq
       ELSE /\ pc' = "txn"
            /\ \E r \in import_log' :
                 /\ r.filename = KeyName(CurFile)
                 /\ r.district_code = KeyDistrict(CurFile)
                 /\ r.status = "processing" /\ r.started_at = run]_vars

C6_Witness ==
  /\ pc = "returned" /\ result.kind = "skipped" /\ ~force
  /\ \E r \in import_log : r.status \in {"failed", "processing"}

\* C7: when a file's insert transaction fails, processFile returns with that
\* file's ledger row failed and carrying the error message, and with none of
\* the attempt's rows in storage.
C7_FailedAttemptRecorded ==
  (pc = "returned" /\ result.kind = "failure") =>
     /\ \E r \in CurRows :
          r.status = "failed" /\ r.error_message = result.error
     /\ Tables(db) = snapshot

\* the sale insertTransaction is about to insert meets a stored row with the
\* same natural key, which the UNIQUE constraint rejects
RejectedByNaturalKey ==
  LET sale == CurParsed.sales[k] IN
  /\ sale.districtCode # NULL /\ sale.propertyId # NULL
  /\ sale.contractDate # NULL
  /\ \E r \in db.property_sales :
       /\ r.district_code = sale.districtCode
       /\ r.property_id = sale.propertyId
       /\ r.sale_sequence = sale.saleSequence
       /\ r.contract_date = sale.contractDate

\* C8: in the insert transaction a sale rejected by the natural-key
\* constraint increments only the skipped counter, adds no row to any table,
\* and the loop goes on to the next record.
C8_DuplicateIsSkipped ==
  [][(pc = "txn" /\ k <= Len(CurParsed.sales) /\ RejectedByNaturalKey
        /\ pc' # "killed") =>
       /\ stats' = [stats EXCEPT !.skipped = @ + 1]
       /\ Tables(db') = Tables(db)
       /\ pc' = "txn" /\ k' = k + 1]_vars

C8_Witness ==
  /\ pc = "txn" /\ stats.skipped = 1 /\ stats.errors = 0
  /\ k <= Len(CurParsed.sales)

\* C9: after the process is terminated, every completed ledger attempt
\* belongs to a file whose insert transaction committed, the rows present
\* when the run started are still there, and a file interrupted inside its
\* transaction has no row of that attempt in storage and no completed
\* attempt.
C9_CrashConsistent ==
  pc = "killed" =>
     /\ \A r \in import_log :
          r.status = "completed" =>
            <<r.filename, r.district_code>> \in committed
     /\ runStart.tables.property_sales \subseteq db.property_sales
     /\ runStart.tables.legal_descriptions \subseteq db.legal_descriptions
     /\ runStart.tables.sale_interests \subseteq db.sale_interests

\* C10: the ledger has at most one row per (filename, district code).
C10_OneRowPerFile ==
  \A r1, r2 \in import_log :
    (r1.filename = r2.filename /\ r1.district_code = r2.district_code)
      => r1 = r2

C10_Witness ==
  /\ pc = "txn"
  /\ \E r \in CurRows : r.status = "processing" /\ r.started_at = run
  /\ \E r \in runStart.log :
       r.filename = KeyName(CurFile) /\ r.district_code = KeyDistrict(CurFile)

\* processFile is at work, with force set, on a file whose key had a
\* completed attempt when the run started
ForcedRerunOfCompleted ==
  /\ pc \in {"txn", "committed", "returned"}
  /\ force /\ HasCompleted(runStart.log, CurFile)

\* C11: a forced re-run of processFile on a file with a completed attempt
\* puts the file's ledger row in processing while the attempt is under way
\* and, when it returns success, leaves that row completed with the counters
\* of the new attempt (processed = number of parsed sales).
C11_ForcedRerunRefreshesRow ==
  /\ (ForcedRerunOfCompleted /\ pc \in {"txn", "committed"}) =>
        \A r \in CurRows : r.status = "processing" /\ r.started_at = run
  /\ (ForcedRerunOfCompleted /\ pc = "returned" /\ result.kind = "success") =>
        \E r \in CurRows :
          /\ r.status = "completed" /\ r.completed_at = run
          /\ r.records_processed = Len(CurParsed.sales)
          /\ r.records_inserted = stats.inserted
          /\ r.records_skipped = stats.skipped

\* the insertSale call insertTransaction is about to make throws an error
\* that is not a uniqueness violation
OtherInsertError ==
  insertSale(db, districts, CurParsed.sales[k], fileType).err
    \notin {"", "SQLITE_CONSTRAINT_UNIQUE"}

\* C18: in the insert transaction an insertion failure other than a
\* natural-key violation increments only the error counter, removes no row,
\* and the loop goes on to the next record; the file whose transaction
\* counted such errors still ends with its ledger row completed.
C18_OtherErrorCounted ==
  [][/\ (pc = "txn" /\ k <= Len(CurParsed.sales) /\ OtherInsertError
           /\ pc' # "killed") =>
          /\ stats' = [stats EXCEPT !.errors = @ + 1]
          /\ db.property_sales \subseteq db'.property_sales
          /\ db.legal_descriptions \subseteq db'.legal_descriptions
          /\ db.sale_interests \subseteq db'.sale_interests
          /\ pc' = "txn" /\ k' = k + 1
     /\ (pc = "committed" /\ stats.errors > 0 /\ pc' = "returned") =>
          \E r \in import_log' :
            /\ r.filename = KeyName(CurFile)
            /\ r.district_code = KeyDistrict(CurFile)
            /\ r.status = "completed" /\ r.records_error = stats.errors]_vars

\* C19: the status of a ledger row changes only from pending to processing,
\* from processing to completed or failed, and from completed back to
\* processing in a forced run.
C19_LifecycleOnly ==
  [][\A r1 \in import_log : \A r2 \in import_log' :
       (r1.id = r2.id /\ r1.status # r2.status) =>
          \/ r1.status = "pending" /\ r2.status = "processing"
          \/ r1.status = "processing" /\ r2.status \in {"completed", "failed"}
          \/ r1.status = "completed" /\ r2.status = "processing" /\ force]_vars


\* C16: initDatabase on a database that was initialised before leaves the
\* reference tables, the sale tables and the ledger unchanged.
C16_InitIdempotent ==
  [][(run >= 1 /\ run' = run + 1) =>
       /\ districts' = districts /\ zone_codes' = zone_codes
       /\ Tables(db') = Tables(db)
       /\ import_log' = import_log
       /\ import_log_seq' = import_log_seq]_vars

C16_Witness ==
  /\ run = 2 /\ pc = "file" /\ fileIdx = 1
  /\ runStart.tables.property_sales # {} /\ runStart.log # {}
  /\ Tables(db) = runStart.tables /\ import_log = runStart.log
  /\ districts = districtCodes /\ zone_codes = zoneCodes

Unknown == <<"u", "n", "k", "n", "o", "w", "n">>

\* the district field of the last A line of a file, NULL when there is none
LastHeaderDistrict(file) ==
  LET as == {i \in 1..Len(file.lines) : file.lines[i][1] = <<"A">>} IN
  IF as = {} THEN NULL
  ELSE Field(file.lines[CHOOSE i \in as : \A j \in as : j <= i], 2)

\* the ledger district the claim gives a file
ExpectedDistrict(file) ==
  IF districtMatch(file.name) # NULL THEN SubSeq(file.name, 1, 3)
  ELSE IF Truthy(LastHeaderDistrict(file)) THEN LastHeaderDistrict(file)
  ELSE Unknown

\* C20: the ledger key of the file processFile works on has the district of
\* the file name when the name starts with three digits and an underscore,
\* else the district of the header line, else 'unknown'; no ledger row has a
\* null or empty district, and processFile throws on no readable file.
C20_DistrictKey ==
  /\ pc \in {"txn", "committed"} =>
       \E r \in import_log :
         /\ r.filename = KeyName(CurFile)
         /\ r.district_code = ExpectedDistrict(CurFile)
         /\ r.started_at = run
  /\ \A r \in import_log : r.district_code # NULL /\ r.district_code # E
  /\ pc = "threw" => ~CurFile.readable

C20_Witness ==
  /\ pc = "txn" /\ CurFile = FileU
  /\ \E r \in import_log :
       r.filename = NameU /\ r.district_code = Unknown /\ r.started_at = run


\* the file the last parseDatFile call returned for
LastFile == filePaths[pathIdx - 1]

\* the positions of the lines of a content that carry a record type
LinesOf(lines, tag) == {i \in 1..Len(lines) : lines[i][1] = tag}

\* the elements of a set of positions in increasing order
RECURSIVE Ascending(_)
Ascending(S) ==
  IF S = {} THEN <<>>
  ELSE LET m == CHOOSE x \in S : \A y \in S : x <= y
       IN <<m>> \o Ascending(S \ {m})

\* the positions of the lines with the tag that lie after the B line at b
\* and before the next B line
ChildrenOf(lines, b, tag) ==
  Ascending({i \in LinesOf(lines, tag) :
               /\ b < i
               /\ \A c \in LinesOf(lines, <<"B">>) : ~(b < c /\ c < i)})

\* C12: the sales parseDatFile returns are the B lines in file order, and
\* the legal descriptions and interests of each are exactly the C and D lines
\* between its B line and the next B line, in file order.
C12_ChildrenOfNearestB ==
  lastParsed # <<>> =>
    LET lines == LastFile.lines
        sales == lastParsed[1].sales
        bs    == Ascending(LinesOf(lines, <<"B">>))
    IN /\ Len(sales) = Len(bs)
       /\ \A j \in 1..Len(bs) :
            LET cs == ChildrenOf(lines, bs[j], <<"C">>)
                ds == ChildrenOf(lines, bs[j], <<"D">>)
            IN /\ [sales[j] EXCEPT !.legalDescriptions = <<>>,
                                   !.interests = <<>>]
                    = parseSaleRecord(lines[bs[j]], LastFile.name)
               /\ sales[j].legalDescriptions =
                    [n \in 1..Len(cs) |->
                       parseLegalDescriptionRecord(lines[cs[n]])]
               /\ sales[j].interests =
                    [n \in 1..Len(ds) |-> parseInterestRecord(lines[ds[n]])]

\* B C D B C was parsed: two sales, the first with one legal description and
\* one interest, the second with one legal description
C12_Witness ==
  /\ lastParsed # <<>>
  /\ Len(LastFile.lines) = 5
  /\ [n \in 1..5 |-> LastFile.lines[n][1]]
       = << <<"B">>, <<"C">>, <<"D">>, <<"B">>, <<"C">> >>
  /\ Len(lastParsed[1].sales) = 2
  /\ Len(lastParsed[1].sales[1].legalDescriptions) = 1
  /\ Len(lastParsed[1].sales[1].interests) = 1
  /\ Len(lastParsed[1].sales[2].legalDescriptions) = 1
  /\ Len(lastParsed[1].sales[2].interests) = 0

KnownTags == {<<"A">>, <<"B">>, <<"C">>, <<"D">>}

\* C13: a line whose record type is not A, B, C or D adds one entry, with
\* its line number, to parseErrors, leaves the sales, the sale in progress
\* and the header as they are, and the loop goes on; when the file returns
\* it has one error entry per such line and one sale per B line.
C13_UnknownLineIsolated ==
  [][/\ (ppc = "lines" /\ lineIdx <= Len(CurBatchFile.lines)
           /\ CurBatchFile.lines[lineIdx][1] \notin KnownTags) =>
          /\ parseState'.parseErrors = Append(parseState.parseErrors, lineIdx)
          /\ parseState'.currentSale = parseState.currentSale
          /\ parseState'.sales = parseState.sales
          /\ parseState'.header = parseState.header
          /\ ppc' = "lines" /\ lineIdx' = lineIdx + 1
     /\ (ppc = "lines" /\ ppc' = "next") =>
          /\ Len(lastParsed'[1].parseErrors) =
               Cardinality({i \in 1..Len(CurBatchFile.lines) :
                              CurBatchFile.lines[i][1] \notin KnownTags})
          /\ Len(lastParsed'[1].sales) =
               Cardinality(LinesOf(CurBatchFile.lines, <<"B">>))]_vars

\* a line of unknown type between two B lines was parsed: both sales and one
\* error entry
C13_Witness ==
  /\ lastParsed # <<>>
  /\ Len(LastFile.lines) = 3
  /\ [n \in 1..3 |-> LastFile.lines[n][1]] = << <<"B">>, <<"X">>, <<"B">> >>
  /\ Len(lastParsed[1].sales) = 2
  /\ lastParsed[1].parseErrors = <<2>>

\* C14: for every content parseDatFile returns, the number of sales plus the
\* number of B lines recorded as parse errors is the number of B lines, and
\* the sale in progress at the end of input is the last sale returned.
C14_AllBLinesAccounted ==
  /\ lastParsed # <<>> =>
       LET lines == LastFile.lines
           res   == lastParsed[1]
           bErrs == {n \in 1..Len(res.parseErrors) :
                       res.parseErrors[n] \in LinesOf(lines, <<"B">>)}
       IN /\ Len(res.sales) + Cardinality(bErrs)
               = Cardinality(LinesOf(lines, <<"B">>))
          /\ parseState.currentSale # <<>> =>
               res.sales[Len(res.sales)] = parseState.currentSale[1]
  /\ (ppc = "lines" /\ lineIdx > Len(CurBatchFile.lines)) => ENABLED FinishFile

\* a content with unknown record types interleaved and a sale in progress at
\* the end of input was parsed
C14_Witness ==
  /\ lastParsed # <<>>
  /\ Len(LastFile.lines) = 5
  /\ [n \in 1..5 |-> LastFile.lines[n][1]]
       = << <<"X">>, <<"B">>, <<"X">>, <<"B">>, <<"C">> >>
  /\ Len(lastParsed[1].sales) = 2
  /\ Len(lastParsed[1].parseErrors) = 2
  /\ lastParsed[1].sales[2] = parseState.currentSale[1]

\* the sales of the readable files among the first n of the list, in order
RECURSIVE SalesOfFirst(_)
SalesOfFirst(n) ==
  IF n = 0 THEN <<>>
  ELSE SalesOfFirst(n - 1) \o
         (IF filePaths[n].readable THEN parseDatFile(filePaths[n]).sales
          ELSE <<>>)

\* C15: parseDatFiles returns after visiting every path; its sales are the
\* sales of the files that parsed, concatenated in list order, totalSales is
\* their number, processedFiles the number of files that parsed, and every
\* file whose parse threw has one error entry of one error.
C15_BatchIsolatesFailures ==
  ppc = "end" =>
    /\ pathIdx = Len(filePaths) + 1
    /\ batch.sales = SalesOfFirst(Len(filePaths))
    /\ batch.totalSales = Len(batch.sales)
    /\ batch.processedFiles =
         Cardinality({i \in 1..Len(filePaths) : filePaths[i].readable})
    /\ \A f \in {filePaths[i] : i \in 1..Len(filePaths)} :
         ~f.readable =>
            /\ Cardinality({n \in 1..Len(batch.errors) :
                              batch.errors[n].file = f.name})
                 = Cardinality({i \in 1..Len(filePaths) : filePaths[i] = f})
            /\ \A n \in 1..Len(batch.errors) :
                 batch.errors[n].file = f.name =>
                   Len(batch.errors[n].errors) = 1

\* a list with an unreadable file between two files that parse
C15_Witness ==
  /\ ppc = "end"
  /\ filePaths = <<FileA, FileX, FileC>>
  /\ batch.processedFiles = 2 /\ batch.totalSales = 3
  /\ Len(batch.errors) = 1 /\ batch.errors[1].file = NameX

\* C17: the entry point exits non-zero without opening the database or
\* calling processDirectory when the source is missing, the source path
\* does not exist or the file type is neither weekly nor annual; without a
\* type flag the type is weekly.
C17_CliRejectsBadArguments ==
  /\ (cpc = "exited" /\ ~options.help
        /\ (\/ options.source \in {"null", Undefined}
            \/ options.source \notin {"d1"}
            \/ options.type \notin {"weekly", "annual"})) =>
       exitCode # 0 /\ ~dbOpened /\ ingestArgs = <<>>
  /\ (cpc # "start" /\ \A i \in 1..Len(argv) : argv[i] # "--type") =>
       options.type = "weekly"

\* field [3] of a split line is a number, and is text without a digit
NumericSeq(fields) == Field(fields, 3) # NULL /\ AllDigits(Field(fields, 3))
NoNumberSeq(fields) ==
  Field(fields, 3) = NULL \/ DigitsPrefix(Field(fields, 3), 1) = <<>>

\* C21: every sale parseDatFile returns has an integer saleSequence, never
\* null: 1 when field [3] of its B line is missing or holds no number, the
\* value of the field when it is a number; B lines whose sequence fields are
\* different numbers get different sequences.
C21_SequenceIsFieldValue ==
  lastParsed # <<>> =>
    LET lines == LastFile.lines
        sales == lastParsed[1].sales
        bs    == Ascending(LinesOf(lines, <<"B">>))
    IN \A j \in 1..Len(bs) :
         /\ sales[j].saleSequence \in Int
         /\ NoNumberSeq(lines[bs[j]]) => sales[j].saleSequence = 1
         /\ NumericSeq(lines[bs[j]]) =>
               sales[j].saleSequence = DigitsValue(Field(lines[bs[j]], 3))
         /\ \A h \in 1..Len(bs) :
              (/\ NumericSeq(lines[bs[j]]) /\ NumericSeq(lines[bs[h]])
               /\ DigitsValue(Field(lines[bs[j]], 3))
                    # DigitsValue(Field(lines[bs[h]], 3)))
                => sales[j].saleSequence # sales[h].saleSequence

\* the position of the "/" of a description of the shape digits/digits, 0
\* for any other description
SlashOf(d) ==
  LET ps == {i \in 2..(Len(d) - 1) :
               /\ d[i] = "/"
               /\ \A n \in 1..Len(d) : n # i => d[n] \in Digit}
  IN IF ps = {} THEN 0 ELSE CHOOSE i \in ps : TRUE

\* a description of the shape SP digits, in any letter case
IsStrata(d) ==
  /\ Len(d) >= 3 /\ d[1] \in {"S", "s"} /\ d[2] \in {"P", "p"}
  /\ \A n \in 3..Len(d) : d[n] \in Digit

\* C22: a legal description digits/digits yields that lot, that plan and
\* plan type DP; SP followed by digits, in any letter case, yields that plan,
\* plan type SP and a null lot; any other description yields null lot and
\* plan; the description itself is kept unchanged in all three cases.
C22_LegalDescriptionShapes ==
  lastParsed # <<>> =>
    LET lines == LastFile.lines
        sales == lastParsed[1].sales
        bs    == Ascending(LinesOf(lines, <<"B">>))
    IN \A j \in 1..Len(bs) :
         LET cs == ChildrenOf(lines, bs[j], <<"C">>) IN
         \A n \in 1..Len(cs) :
           LET d  == Field(lines[cs[n]], 5)
               ld == sales[j].legalDescriptions[n]
           IN /\ d # NULL => ld.legalDescription = d
              /\ IF d # NULL /\ SlashOf(d) # 0
                 THEN /\ ld.lotNumber = SubSeq(d, 1, SlashOf(d) - 1)
                      /\ ld.planNumber = SubSeq(d, SlashOf(d) + 1, Len(d))
                      /\ ld.planType = <<"D", "P">>
                 ELSE IF d # NULL /\ IsStrata(d)
                 THEN /\ ld.lotNumber = NULL
                      /\ ld.planNumber = SubSeq(d, 3, Len(d))
                      /\ ld.planType = <<"S", "P">>
                 ELSE ld.lotNumber = NULL /\ ld.planNumber = NULL

\* a sale with a lower-case strata plan as its legal description was parsed
C22_Witness ==
  /\ lastParsed # <<>>
  /\ Len(lastParsed[1].sales) = 1
  /\ Len(lastParsed[1].sales[1].legalDescriptions) = 1
  /\ LET ld == lastParsed[1].sales[1].legalDescriptions[1] IN
       /\ ld.legalDescription = <<"s", "p", "1", "2">>
       /\ ld.planType = <<"S", "P">> /\ ld.planNumber = <<"1", "2">>
       /\ ld.lotNumber = NULL

\* the lines of a content without the C and D lines that come before its
\* first B line
RECURSIVE WithoutOrphans(_)
WithoutOrphans(lines) ==
  IF lines = <<>> \/ Head(lines)[1] = <<"B">> THEN lines
  ELSE IF Head(lines)[1] \in {<<"C">>, <<"D">>}
  THEN WithoutOrphans(Tail(lines))
  ELSE <<Head(lines)>> \o WithoutOrphans(Tail(lines))

\* C23: a C or D line before the first B line of a file changes nothing (no
\* sale, no child, no parseErrors entry) and the loop goes on; the file
\* returns the sales, the header and as many parse errors as the same content
\* without those lines.
C23_OrphanChildDropped ==
  [][/\ (/\ ppc = "lines" /\ lineIdx <= Len(CurBatchFile.lines)
         /\ CurBatchFile.lines[lineIdx][1] \in {<<"C">>, <<"D">>}
         /\ \A b \in LinesOf(CurBatchFile.lines, <<"B">>) : b > lineIdx) =>
          /\ parseState' = parseState
          /\ ppc' = "lines" /\ lineIdx' = lineIdx + 1
     /\ (ppc = "lines" /\ ppc' = "next") =>
          LET ref == parseDatFile([CurBatchFile EXCEPT
                                     !.lines = WithoutOrphans(@)])
          IN /\ lastParsed'[1].sales = ref.sales
             /\ lastParsed'[1].header = ref.header
             /\ Len(lastParsed'[1].parseErrors) = Len(ref.parseErrors)]_vars

\* C D B C was parsed: one sale with one legal description, no parse error
C23_Witness ==
  /\ lastParsed # <<>>
  /\ Len(LastFile.lines) = 4
  /\ [n \in 1..4 |-> LastFile.lines[n][1]]
       = << <<"C">>, <<"D">>, <<"B">>, <<"C">> >>
  /\ Len(lastParsed[1].sales) = 1
  /\ Len(lastParsed[1].sales[1].legalDescriptions) = 1
  /\ lastParsed[1].sales[1].interests = <<>>
  /\ lastParsed[1].parseErrors = <<>>

\* the listed file a path names
FileAt(path) ==
  CHOOSE f \in UNION {{readdirSync(d)[i] : i \in 1..Len(readdirSync(d))} :
                        d \in {Dir1, Dir2, Dir3}} :
    \E d \in {Dir1, Dir2, Dir3} :
      /\ join(d, f.name) = path
      /\ \E i \in 1..Len(readdirSync(d)) : readdirSync(d)[i] = f

\* the file whose attempt a ledger row that has just been completed
\* describes: the file processFile works on when the row has its key, else
\* the file the row was written for
AttemptFile(r) ==
  IF r.filename = KeyName(CurFile) /\ r.district_code = KeyDistrict(CurFile)
  THEN CurFile ELSE FileAt(r.file_path)

\* C24: every ledger row that reaches completed has records_inserted +
\* records_skipped + records_error = records_processed = the number of sales
\* parsed from its file.
C24_CountersAddUp ==
  [][\A r \in import_log' :
       (r.status = "completed" /\ r \notin import_log) =>
          /\ r.records_inserted + r.records_skipped + r.records_error
               = r.records_processed
          /\ r.records_processed = Len(parseDatFile(AttemptFile(r)).sales)]_vars

\* C25: when processDirectory returns, total = processed + skipped + errors
\* and total is the number of listed files; each file processFile returned
\* for is counted in exactly one of the three, and the inserted total grows
\* by the inserted counter of exactly the files counted as processed.
C25_SummaryAccounts ==
  [][/\ pc' = "done" =>
          /\ results'.total = Len(files')
          /\ results'.processed + results'.skipped + results'.errors
               = results'.total
     /\ (pc = "returned" /\ pc' # "killed") =>
          LET one(kind) == IF result.kind = kind THEN 1 ELSE 0 IN
          /\ results'.skipped = results.skipped + one("skipped")
          /\ results'.processed = results.processed + one("success")
          /\ results'.errors = results.errors + one("failure")
          /\ one("skipped") + one("success") + one("failure") = 1
          /\ results'.inserted =
               results.inserted
                 + (IF result.kind = "success" THEN stats.inserted ELSE 0)
          /\ results'.total = results.total]_vars

\* a run returned its summary with one file processed, rows inserted, and
\* one file skipped
C25_Witness ==
  /\ pc = "done" /\ results.total = 2
  /\ results.processed = 1 /\ results.skipped = 1 /\ results.inserted >= 1

\* the sale rows in storage that the insert transaction under way has added
AddedSales == db.property_sales \ snapshot.property_sales

\* a stored sale row has all the children of a parsed record with its key
StoredWhole(r) ==
  \E j \in 1..Len(CurParsed.sales) :
    LET sale == CurParsed.sales[j] IN
    /\ r.district_code = sale.districtCode
    /\ r.property_id = sale.propertyId
    /\ r.sale_sequence = sale.saleSequence
    /\ r.contract_date = sale.contractDate
    /\ Cardinality({c \in db.legal_descriptions : c.sale_id = r.id})
         = Len(sale.legalDescriptions)
    /\ Cardinality({c \in db.sale_interests : c.sale_id = r.id})
         = Len(sale.interests)

\* C26: after a file's transaction commits, every sale row the attempt added
\* is stored with all the legal descriptions and interests of its record,
\* and the number of sale rows the attempt added is its inserted counter (a
\* record counted as error or skipped leaves no sale row).
C26_RecordAtomic ==
  pc = "committed" =>
    /\ \A r \in AddedSales : StoredWhole(r)
    /\ Cardinality(AddedSales) = stats.inserted

\* C27: a ledger row whose status is processing or failed carries no
\* counters and no completion time of an earlier attempt: its counters are
\* zero, and its completion time is unset while processing and not before
\* the start of the attempt once failed.
C27_NoStaleCounters ==
  \A r \in import_log :
    r.status \in {"processing", "failed"} =>
      /\ r.records_processed = 0 /\ r.records_inserted = 0
      /\ r.records_skipped = 0 /\ r.records_error = 0
      /\ r.status = "processing" => r.completed_at = 0
      /\ r.status = "failed" => r.completed_at >= r.started_at

\* a parsed child has the identifiers of a parsed sale
SameIdentifiers(child, sale) ==
  /\ child.districtCode = sale.districtCode
  /\ child.propertyId = sale.propertyId
  /\ child.saleSequence = sale.saleSequence

\* C28: every legal description and interest attached to a sale that
\* parseDatFile returns has the district code, property id and sale sequence
\* of that sale; a C or D line with other identifiers is not attached.
C28_ChildrenShareIdentifiers ==
  lastParsed # <<>> =>
    \A j \in 1..Len(lastParsed[1].sales) :
      LET sale == lastParsed[1].sales[j] IN
      /\ \A n \in 1..Len(sale.legalDescriptions) :
           SameIdentifiers(sale.legalDescriptions[n], sale)
      /\ \A n \in 1..Len(sale.interests) :
           SameIdentifiers(sale.interests[n], sale)

\* C29: a processFile call changes no ledger row other than the row of its
\* own file's (filename, district code), and adds no row with another key.
C29_OtherRowsUntouched ==
  [][(pc \in {"file", "txn", "committed"} /\ pc' # "killed") =>
       /\ \A r \in import_log :
            (r.filename # KeyName(CurFile)
               \/ r.district_code # KeyDistrict(CurFile)) => r \in import_log'
       /\ \A r \in import_log' \ import_log :
            /\ r.filename = KeyName(CurFile)
            /\ r.district_code = KeyDistrict(CurFile)]_vars

\* the ledger has a completed attempt for the key of the file processFile is
\* called on, written for another path or another file type
CompletedElsewhere ==
  \E r \in import_log :
    /\ r.filename = KeyName(CurFile)
    /\ r.district_code = KeyDistrict(CurFile)
    /\ r.status = "completed"
    /\ r.file_path # join(dirPath, CurFile.name) \/ r.file_type # fileType

\* C30: with force=false a readable file whose (base name, district) has a
\* completed attempt is skipped even when that attempt was of a file in
\* another directory, of another declared type or with other content: the
\* early return is taken, no row is written and the ledger is unchanged.
C30_SkipByNameAndDistrict ==
  [][(pc = "file" /\ CurFile.readable /\ ~force /\ CompletedElsewhere
        /\ pc' # "killed") =>
       /\ pc' = "returned" /\ result'.kind = "skipped"
       /\ Tables(db') = Tables(db)
       /\ import_log' = import_log]_vars

\* the second 214_a.DAT, of directory d2, was skipped on the completed
\* attempt of the one of d1; its sale is not in storage
C30_Witness ==
  /\ pc = "returned" /\ result.kind = "skipped" /\ ~force
  /\ CurFile = FileA2 /\ dirPath = Dir2
  /\ \E r \in import_log :
       /\ r.filename = NameA /\ r.status = "completed"
       /\ r.file_path = join(Dir1, NameA)
  /\ \A r \in db.property_sales :
       ~(r.property_id = P2 /\ r.sale_sequence = 2)


====
